---- MODULE Spec2Model ----
(***************************************************************************)
(* Model of network_lib/old/osmnx_simplify_overwrite.py: the topology      *)
(* simplification of a directed multigraph (networkx 1.x MultiDiGraph).    *)
(*                                                                         *)
(* A graph object is a record                                              *)
(*   node : [present node ids -> [IsCentroid : 0..1]]        (G.node)      *)
(*   edge : the set of the edges [u, v, key, data]             (G.edge)    *)
(* where data, G.edge[u][v][key], is the edge's attribute record           *)
(* [length, osmid, geometry]; osmid is the set of its values (a            *)
(* scalar is a singleton), geometry is the sequence of the nodes whose     *)
(* coordinates make up the LineString, and << >> when the edge has no      *)
(* 'geometry' key.                                                         *)
(*                                                                         *)
(* Graph objects live in a heap (a sequence of objects, a reference is an  *)
(* index) so that copying and mutating are distinguishable from aliasing.  *)
(***************************************************************************)
EXTENDS Integers, Sequences, FiniteSets, TLC

\* ------------------------------------------------------------------ bounds
NumNodes == 3        \* node identifiers of the input graphs: 1..NumNodes
MaxEdges == 5        \* edges of an input graph
MaxMult == 2         \* parallel edges per ordered node pair of an input graph
RecursionLimit == 2  \* deepest nesting of build_path the interpreter may allow
RingSize == 4        \* nodes of the isolated ring of SpecRing

Nodes == 1..NumNodes

NoGeometry == << >>

\* ---------------------------------------------------------------- helpers
Range(s) == {s[i] : i \in 1..Len(s)}

Max(S) == CHOOSE x \in S : \A y \in S : x >= y

\* The elements of a finite set of positive integers in the order in which
\* the graph library iterates over node identifiers: ascending.
InOrder(S) ==
    IF S = {} THEN << >> ELSE SelectSeq([i \in 1..Max(S) |-> i], LAMBDA i : i \in S)

RECURSIVE Flatten(_)
\* The concatenation of a sequence of sequences.
Flatten(ss) == IF ss = << >> THEN << >> ELSE Head(ss) \o Flatten(Tail(ss))

RECURSIVE SumSeq(_)
\* Python's sum(list).
SumSeq(s) == IF s = << >> THEN 0 ELSE Head(s) + SumSeq(Tail(s))

\* ------------------------------------------------- the graph library used
nodes(G) == DOMAIN G.node

\* G.edge[u][v]: the parallel edges from u to v.
edges_between(G, u, v) == {e \in G.edge : e.u = u /\ e.v = v}

\* G.edge[u][v][k]
edge_data(G, u, v, k) == (CHOOSE e \in G.edge : e.u = u /\ e.v = v /\ e.key = k).data

predecessors(G, n) == {e.u : e \in {x \in G.edge : x.v = n}}

successors(G, n) == {e.v : e \in {x \in G.edge : x.u = n}}

in_degree(G, n) == Cardinality({e \in G.edge : e.v = n})

out_degree(G, n) == Cardinality({e \in G.edge : e.u = n})

\* A self-loop counts twice: once as an incoming and once as an outgoing edge.
degree(G, n) == in_degree(G, n) + out_degree(G, n)

\* G.add_edge(u, v, **attr): the new edge takes the next free key, which is
\* the number of edges from u to v as keys are handed out from 0 and edges
\* only go with their nodes; missing end nodes are created without
\* attributes.
add_edge(G, u, v, attr) ==
    LET ns == nodes(G) \cup {u, v}
        nd == [n \in ns |-> IF n \in nodes(G) THEN G.node[n] ELSE [IsCentroid |-> 0]]
        e == [u |-> u, v |-> v, key |-> Cardinality(edges_between(G, u, v)), data |-> attr]
    IN [node |-> nd, edge |-> G.edge \cup {e}]

\* G.remove_nodes_from(S): the nodes go, and every edge from or to them.
remove_nodes_from(G, S) ==
    LET ns == nodes(G) \ S
    IN [node |-> [n \in ns |-> G.node[n]],
        edge |-> {e \in G.edge : e.u \notin S /\ e.v \notin S}]

\* ------------------------------------------------------------ is_endpoint
\* set(osmids) of lines 53-66: the osmid values of every edge into and out
\* of the node.
incident_osmids(G, node) ==
    UNION {e.data.osmid : e \in {x \in G.edge : x.u = node \/ x.v = node}}

\* Mutation of is_endpoint: the IsCentroid test of lines 32-33 left out.
is_endpoint_no_centroid(G, node, strict) ==
    LET neighbors == predecessors(G, node) \cup successors(G, node)
        n == Cardinality(neighbors)
        ins == in_degree(G, node)
        outs == out_degree(G, node)
        d == ins + outs
    IN IF node \in neighbors THEN TRUE
       ELSE IF outs = 0 \/ ins = 0 THEN TRUE
       ELSE IF ~(n = 2 /\ (d = 2 \/ d = 4)) THEN TRUE
       ELSE IF ~strict THEN Cardinality(incident_osmids(G, node)) > 1
       ELSE FALSE

\* Mutation of is_endpoint: the degree test of line 44 left out, the
\* neighbour count alone decides.
is_endpoint_any_degree(G, node, strict) ==
    LET neighbors == predecessors(G, node) \cup successors(G, node)
        n == Cardinality(neighbors)
        ins == in_degree(G, node)
        outs == out_degree(G, node)
    IN IF G.node[node].IsCentroid = 1 THEN TRUE
       ELSE IF node \in neighbors THEN TRUE
       ELSE IF outs = 0 \/ ins = 0 THEN TRUE
       ELSE IF ~(n = 2) THEN TRUE
       ELSE IF ~strict THEN Cardinality(incident_osmids(G, node)) > 1
       ELSE FALSE

is_endpoint(G, node, strict) ==
    LET neighbors == predecessors(G, node) \cup successors(G, node)
        n == Cardinality(neighbors)
        ins == in_degree(G, node)
        outs == out_degree(G, node)
        d == ins + outs   \* G.degree(node)
    IN IF G.node[node].IsCentroid = 1 THEN TRUE
       ELSE IF node \in neighbors THEN TRUE
       ELSE IF outs = 0 \/ ins = 0 THEN TRUE
       ELSE IF ~(n = 2 /\ (d = 2 \/ d = 4)) THEN TRUE
       ELSE IF ~strict THEN Cardinality(incident_osmids(G, node)) > 1
       ELSE FALSE

\* ------------------------------------------------------------- build_path
\* The result of a call: the path, or raised = TRUE when the nesting went
\* past the interpreter's limit (RuntimeError / RecursionError).
RECURSIVE build_path(_, _, _, _, _, _)
RECURSIVE build_path_loop(_, _, _, _, _, _, _)

\* The for loop of lines 89-98 over the successors still to visit, followed
\* by the ring closure of lines 100-105.
build_path_loop(G, node, endpoints, path, todo, depth, limit) ==
    IF todo = << >>
    THEN LET last == path[Len(path)]
         IN IF last \notin endpoints /\ path[1] \in successors(G, last)
            THEN [raised |-> FALSE, path |-> Append(path, path[1])]
            ELSE [raised |-> FALSE, path |-> path]
    ELSE LET successor == Head(todo)
         IN IF successor \in Range(path)
            THEN build_path_loop(G, node, endpoints, path, Tail(todo), depth, limit)
            ELSE IF successor \notin endpoints
            THEN LET r == build_path(G, successor, endpoints, Append(path, successor),
                                     depth + 1, limit)
                 IN IF r.raised THEN r
                    ELSE build_path_loop(G, node, endpoints, r.path, Tail(todo),
                                         depth, limit)
            ELSE [raised |-> FALSE, path |-> Append(path, successor)]

build_path(G, node, endpoints, path, depth, limit) ==
    IF depth > limit
    THEN [raised |-> TRUE, path |-> path]
    ELSE build_path_loop(G, node, endpoints, path, InOrder(successors(G, node)),
                         depth, limit)

\* -------------------------------------------------- get_paths_to_simplify
\* set([node for node in G.nodes() if is_endpoint(G, node, strict=strict)])
endpoints_of(G, strict) ==
    LET found == {node \in nodes(G) : is_endpoint(G, node, strict)} IN {node : node \in found}

\* Mutation of seeds_from: one pair for every edge out of the endpoint
\* rather than one for every successor.
seeds_from_out_edges(G, endpoints, node) ==
    LET found == SelectSeq(InOrder(successors(G, node)), LAMBDA v : v \notin endpoints)
        each == [i \in 1..Len(found) |->
                    [k \in 1..Cardinality(edges_between(G, node, found[i])) |->
                        <<node, found[i]>>]]
    IN Flatten(each)

\* The pairs <<node, successor>> of lines 132-134 for one endpoint.
seeds_from(G, endpoints, node) ==
    LET found == SelectSeq(InOrder(successors(G, node)), LAMBDA v : v \notin endpoints)
    IN [i \in 1..Len(found) |-> <<node, found[i]>>]

\* Mutation of path_seeds: chains are started from every node, not from the
\* endpoints only.
path_seeds_all_nodes(G, endpoints) ==
    LET from == InOrder(nodes(G))
    IN Flatten([i \in 1..Len(from) |-> seeds_from(G, endpoints, from[i])])

\* The (endpoint, successor) pairs a chain is built from, in iteration order
\* (lines 132-134).
path_seeds(G, endpoints) ==
    LET from == InOrder(endpoints)
    IN Flatten([i \in 1..Len(from) |-> seeds_from(G, endpoints, from[i])])

RECURSIVE collect_paths(_, _, _, _, _)
\* Lines 136-143 for the seeds still to visit: acc is
\* [paths |-> paths_to_simplify, log |-> the warnings logged].
collect_paths(G, endpoints, seeds, limit, acc) ==
    IF seeds = << >> THEN acc
    ELSE LET node == Head(seeds)[1]
             successor == Head(seeds)[2]
             r == build_path(G, successor, endpoints, <<node, successor>>, 1, limit)
         IN collect_paths(G, endpoints, Tail(seeds), limit,
                IF r.raised
                THEN [acc EXCEPT !.log = Append(@, "recursion")]
                ELSE [acc EXCEPT !.paths = Append(@, r.path)])

get_paths_to_simplify(G, strict, limit) ==
    LET endpoints == endpoints_of(G, strict)
    IN collect_paths(G, endpoints, path_seeds(G, endpoints), limit,
                     [paths |-> << >>, log |-> << >>])

\* ---------------------------------------------------------- is_simplified
\* Mutation of is_simplified: one edge with a geometry is not enough.
is_simplified_several(G) ==
    LET edges_with_geometry == {e \in G.edge : e.data.geometry # NoGeometry}
    IN Cardinality(edges_with_geometry) > 1

is_simplified(G) ==
    LET edges_with_geometry == {e \in G.edge : e.data.geometry # NoGeometry}
    IN Cardinality(edges_with_geometry) > 0

\* --------------------------------------------------------- simplify_graph
\* Mutation of copy: G = G_, the same object.
copy_alias(heap, ref) == [heap |-> heap, ref |-> ref]

\* G_.copy(): a new object with the same content.
copy(heap, ref) == [heap |-> Append(heap, heap[ref]), ref |-> Len(heap) + 1]

\* The edge used for each consecutive pair of the path: edges[0] (line 207).
path_edges(G, path) ==
    [i \in 1..Len(path) - 1 |-> edge_data(G, path[i], path[i + 1], 0)]

\* The warnings of lines 203-204, one per consecutive pair that is joined
\* by other than one edge.
multi_edge_log(G, path) ==
    LET pairs == SelectSeq([i \in 1..Len(path) - 1 |-> <<path[i], path[i + 1]>>],
                           LAMBDA p : Cardinality(edges_between(G, p[1], p[2])) # 1)
    IN [i \in 1..Len(pairs) |-> "multiple"]

\* Mutation of edge_to_add: the lengths consolidated like the osmid values,
\* one of each, before they are summed.
edge_to_add_unique_lengths(G, path) ==
    LET used == path_edges(G, path)
        lengths == {used[i].length : i \in 1..Len(used)}
    IN [origin |-> path[1],
        destination |-> path[Len(path)],
        attr_dict |-> [length |-> SumSeq(InOrder(lengths)),
                       osmid |-> UNION {used[i].osmid : i \in 1..Len(used)},
                       geometry |-> path]]

\* Mutation of edge_to_add: the geometry of line 228 is not stored.
edge_to_add_no_geometry(G, path) ==
    LET used == path_edges(G, path)
        lengths == [i \in 1..Len(used) |-> used[i].length]
    IN [origin |-> path[1],
        destination |-> path[Len(path)],
        attr_dict |-> [length |-> SumSeq(lengths),
                       osmid |-> UNION {used[i].osmid : i \in 1..Len(used)},
                       geometry |-> NoGeometry]]

\* Lines 198-234: the synthetic edge of one path.  The osmid values are
\* consolidated to one of each, the lengths are summed as a list, and the
\* geometry runs through every node of the path.
edge_to_add(G, path) ==
    LET used == path_edges(G, path)
        lengths == [i \in 1..Len(used) |-> used[i].length]
    IN [origin |-> path[1],
        destination |-> path[Len(path)],
        attr_dict |-> [length |-> SumSeq(lengths),
                       osmid |-> UNION {used[i].osmid : i \in 1..Len(used)},
                       geometry |-> path]]

RECURSIVE add_edges(_, _)
\* Lines 237-238.
add_edges(G, todo) ==
    IF todo = << >> THEN G
    ELSE add_edges(add_edge(G, Head(todo).origin, Head(todo).destination,
                            Head(todo).attr_dict), Tail(todo))

\* path[1:-1]
interior(path) == SubSeq(path, 2, Len(path) - 1)

\* The whole call.  heap[ref] is G_; the result says whether the call
\* raised, the heap afterwards, the reference returned, and what the call
\* computed on the way (paths, all_edges_to_add, all_nodes_to_remove, the
\* warnings logged).
simplify_graph(heap, ref, strict, limit) ==
    IF is_simplified(heap[ref])
    THEN [raised |-> TRUE, heap |-> heap, ret |-> 0, paths |-> << >>,
          all_edges_to_add |-> << >>, all_nodes_to_remove |-> << >>, log |-> << >>]
    ELSE LET c == copy(heap, ref)
             G == c.heap[c.ref]
             got == get_paths_to_simplify(G, strict, limit)
             paths == got.paths
             all_edges_to_add == [i \in 1..Len(paths) |-> edge_to_add(G, paths[i])]
             all_nodes_to_remove == Flatten([i \in 1..Len(paths) |-> interior(paths[i])])
             warned == Flatten([i \in 1..Len(paths) |-> multi_edge_log(G, paths[i])])
             G1 == add_edges(G, all_edges_to_add)
             G2 == remove_nodes_from(G1, Range(all_nodes_to_remove))
         IN [raised |-> FALSE,
             heap |-> [c.heap EXCEPT ![c.ref] = G2],
             ret |-> c.ref,
             paths |-> paths,
             all_edges_to_add |-> all_edges_to_add,
             all_nodes_to_remove |-> all_nodes_to_remove,
             log |-> got.log \o warned]

\* ------------------------------------------------------------- the inputs
\* An edge as the graph loader leaves it: no geometry, a scalar osmid.
PlainEdge == [length |-> 1, osmid |-> {1}, geometry |-> NoGeometry]

\* An edge of another way: another osmid, another length.
OtherEdge == [length |-> 2, osmid |-> {2}, geometry |-> NoGeometry]

EmptyGraph == [node |-> [n \in Nodes |-> [IsCentroid |-> 0]], edge |-> {}]

RECURSIVE Multiplicities(_)
\* The ways to give each of the first i ordered node pairs 0..MaxMult
\* parallel edges, MaxEdges edges at most in all: sequences of length i.
Multiplicities(i) ==
    IF i = 0 THEN {<< >>}
    ELSE {Append(x[1], x[2]) :
             x \in {y \in Multiplicities(i - 1) \X (0..MaxMult) :
                        SumSeq(y[1]) + y[2] <= MaxEdges}}

\* The graph with m[(u - 1) * NumNodes + v] plain edges from u to v.
PlainGraph(m) ==
    [node |-> [n \in Nodes |-> [IsCentroid |-> 0]],
     edge |-> UNION {{[u |-> p[1], v |-> p[2], key |-> k - 1, data |-> PlainEdge] :
                         k \in 1..m[(p[1] - 1) * NumNodes + p[2]]} : p \in Nodes \X Nodes}]

\* Graphs that differ only in the numbering of their nodes are simplified
\* alike, so one numbering is enough: the nodes are numbered by decreasing
\* degree, then out-degree, then number of self-loops.
NodeKey(G, n) ==
    (degree(G, n) * (2 * MaxEdges + 1) + out_degree(G, n)) * (MaxMult + 1)
        + Cardinality(edges_between(G, n, n))

Canonical(G) == \A n \in 1..NumNodes - 1 : NodeKey(G, n) >= NodeKey(G, n + 1)

Topologies ==
    {PlainGraph(m) : m \in {x \in Multiplicities(NumNodes * NumNodes) :
                                Canonical(PlainGraph(x))}}

with_centroid(G, n) == [G EXCEPT !.node[n].IsCentroid = 1]

with_edge_data(G, e, attr) == [G EXCEPT !.edge = (@ \ {e}) \cup {[e EXCEPT !.data = attr]}]

\* A topology as it is, or with one node flagged as a centroid, or with one
\* edge of another way, or with one edge that already carries a geometry.
Variants(G) ==
    {G} \cup {with_centroid(G, n) : n \in Nodes}
        \cup {with_edge_data(G, e, OtherEdge) : e \in G.edge}
        \cup {with_edge_data(G, e, [PlainEdge EXCEPT !.geometry = <<e.u, e.v>>]) :
                  e \in G.edge}

\* ------------------------------------------------------ the state machine
\* A caller loads a graph, simplifies it, and may hand the graph it got back
\* to simplify_graph once more.
VARIABLES
    heap,       \* the graph objects; a reference is an index
    calls,      \* calls of simplify_graph made so far
    arg,        \* the reference passed as G_ to the last call (0: no call yet)
    before,     \* the content of G_ when the last call was made
    strict,     \* the strict argument of the last call
    raised,     \* whether the last call raised the precondition error
    ret,        \* the reference the last call returned (0: none)
    paths,      \* paths_to_simplify of the last call
    all_edges_to_add,
    all_nodes_to_remove,
    log,        \* the warnings the last call logged
    earlier     \* paths and all_nodes_to_remove of the call before the last

vars == <<heap, calls, arg, before, strict, raised, ret, paths, all_edges_to_add,
          all_nodes_to_remove, log, earlier>>

\* The caller has loaded G and called nothing yet.
Loaded(G) ==
    /\ heap = <<G>>
    /\ calls = 0
    /\ arg = 0
    /\ before = EmptyGraph
    /\ strict = TRUE
    /\ raised = FALSE
    /\ ret = 0
    /\ paths = << >>
    /\ all_edges_to_add = << >>
    /\ all_nodes_to_remove = << >>
    /\ log = << >>
    /\ earlier = [paths |-> << >>, all_nodes_to_remove |-> << >>]

Init == \E G \in Topologies : \E V \in Variants(G) : Loaded(V)

\* simplify_graph(heap[ref], strict=s) with room for `limit` nested
\* build_path calls.
Call(ref, s, limit) ==
    LET r == simplify_graph(heap, ref, s, limit)
    IN /\ heap' = r.heap
       /\ calls' = calls + 1
       /\ arg' = ref
       /\ before' = heap[ref]
       /\ strict' = s
       /\ raised' = r.raised
       /\ ret' = r.ret
       /\ paths' = r.paths
       /\ all_edges_to_add' = r.all_edges_to_add
       /\ all_nodes_to_remove' = r.all_nodes_to_remove
       /\ log' = r.log
       /\ earlier' = [paths |-> paths, all_nodes_to_remove |-> all_nodes_to_remove]

\* The caller simplifies the graph it loaded.
Simplify ==
    /\ calls = 0
    /\ \E s \in BOOLEAN, limit \in 1..RecursionLimit : Call(1, s, limit)

\* The caller simplifies the graph the first call returned.
SimplifyReturned ==
    /\ calls = 1
    /\ ret # 0
    /\ \E s \in BOOLEAN, limit \in 1..RecursionLimit : Call(ret, s, limit)

Next == Simplify

Spec == Init /\ [][Next]_vars

\* Two calls in a row, on the plain topologies.
InitPlain == \E G \in Topologies : Loaded(G)

NextTwice == Simplify \/ SimplifyReturned

SpecTwice == InitPlain /\ [][NextTwice]_vars

\* One call on a graph that holds, beside the nodes and edges of a plain
\* topology, an isolated one-way ring: NumNodes+1 -> NumNodes+2 -> ... ->
\* NumNodes+RingSize -> NumNodes+1.
RingNodes == (NumNodes + 1)..(NumNodes + RingSize)

RingNext(n) == IF n = NumNodes + RingSize THEN NumNodes + 1 ELSE n + 1

with_ring(G) ==
    [node |-> [n \in nodes(G) \cup RingNodes |->
                  IF n \in nodes(G) THEN G.node[n] ELSE [IsCentroid |-> 0]],
     edge |-> G.edge \cup {[u |-> n, v |-> RingNext(n), key |-> 0, data |-> PlainEdge] :
                               n \in RingNodes}]

InitRing == \E G \in Topologies : Loaded(with_ring(G))

SpecRing == InitRing /\ [][Next]_vars

\* ------------------------------------------------------------- properties
\* The last call returned a graph.
Returned == calls > 0 /\ ~raised

\* The nodes strictly inside a chain.
Inside(p) == {p[i] : i \in 2..Len(p) - 1}

\* A chain that ends where it starts.
Closed(p) == p[1] = p[Len(p)]

AllInside(ps) == UNION {Inside(ps[i]) : i \in 1..Len(ps)}

HasGeometry(G) == \E e \in G.edge : e.data.geometry # NoGeometry

\* C1: a call on a graph with an edge that carries a geometry raises the
\* precondition error having computed no chain, made no copy and changed
\* nothing; a call on a graph without such an edge does not raise it.
C1_GuardRejectsGeometry ==
    calls > 0 =>
        /\ raised <=> HasGeometry(before)
        /\ raised => /\ heap = <<before>>
                     /\ ret = 0
                     /\ paths = << >>
                     /\ all_edges_to_add = << >>
                     /\ all_nodes_to_remove = << >>
                     /\ log = << >>

C1_Witness == calls = 1 /\ raised /\ Cardinality(before.edge) > 1

\* C5: after a call the graph passed in is as it was, and a graph that is
\* returned is another object than the one passed in.
C5_InputUntouched ==
    calls > 0 => /\ heap[arg] = before
                 /\ ~raised => ret # arg /\ ret \in 1..Len(heap)

C5_Witness == Returned /\ heap[ret] # before /\ all_nodes_to_remove # << >>

\* C3: a node flagged IsCentroid = 1 is inside no chain and is a node of the
\* graph returned.
C3_CentroidsKept ==
    Returned =>
        \A n \in nodes(before) :
            before.node[n].IsCentroid = 1 =>
                n \in nodes(heap[ret]) /\ n \notin AllInside(paths)

\* A centroid that the degree rules alone would contract, at the end of a
\* chain.
C3_Witness ==
    /\ Returned
    /\ \E n \in nodes(before) :
          /\ before.node[n].IsCentroid = 1
          /\ Cardinality(predecessors(before, n) \cup successors(before, n)) = 2
          /\ n \notin predecessors(before, n)
          /\ in_degree(before, n) > 0 /\ out_degree(before, n) > 0
          /\ degree(before, n) \in {2, 4}
          /\ \E i \in 1..Len(paths) : paths[i][Len(paths[i])] = n

\* C6: the nodes of the graph returned are those of the input less the
\* nodes inside the chains, and a removed node that is not inside a closed
\* chain had two neighbours and degree 2 or 4 in the input.
C6_NodeCount ==
    Returned =>
        /\ nodes(heap[ret]) = nodes(before) \ AllInside(paths)
        /\ Range(all_nodes_to_remove) = AllInside(paths)
        /\ \A i \in 1..Len(paths) :
              ~Closed(paths[i]) =>
                  \A n \in Inside(paths[i]) :
                      /\ Cardinality(predecessors(before, n) \cup successors(before, n)) = 2
                      /\ degree(before, n) \in {2, 4}

\* A node of degree 4 inside a chain that is not closed is removed.
C6_Witness ==
    /\ Returned
    /\ \E i \in 1..Len(paths) :
          /\ ~Closed(paths[i])
          /\ \E n \in Inside(paths[i]) :
                degree(before, n) = 4 /\ n \notin nodes(heap[ret])

\* The endpoints the last call classified.
Endpoints == endpoints_of(before, strict)

\* C7: every chain starts and ends at an endpoint, has only non-endpoints
\* inside, repeats no node but its first as its last, and follows an edge
\* of the input at every step.
C7_ChainShape ==
    Returned =>
        \A i \in 1..Len(paths) :
            LET p == paths[i]
            IN /\ Len(p) >= 2
               /\ p[1] \in Endpoints
               /\ p[Len(p)] \in Endpoints
               /\ Inside(p) \cap Endpoints = {}
               /\ \A j, k \in 1..Len(p) :
                     (j < k /\ p[j] = p[k]) => (j = 1 /\ k = Len(p))
               /\ \A j \in 1..Len(p) - 1 : p[j + 1] \in successors(before, p[j])

\* C8 as claimed: no node is inside two chains.
C8_ChainsDisjoint ==
    Returned =>
        \A i, j \in 1..Len(paths) :
            i # j => Inside(paths[i]) \cap Inside(paths[j]) = {}

\* The position of a node inside a chain.
At(p, n) == CHOOSE j \in 2..Len(p) - 1 : p[j] = n

\* How often n occurs in the sequence s.
Occurrences(s, n) == Cardinality({i \in 1..Len(s) : s[i] = n})

\* C8, amended: a node is inside two chains at most, and two chains that
\* share an inside node come to it from different neighbours; a node is
\* marked for removal once for every chain it is inside of, and every
\* marked node, and no other, is gone from the graph returned.
C8_AtMostTwoChainsPerNode ==
    Returned =>
        /\ \A n \in AllInside(paths) :
              /\ Cardinality({i \in 1..Len(paths) : n \in Inside(paths[i])}) <= 2
              /\ Occurrences(all_nodes_to_remove, n)
                    = Cardinality({i \in 1..Len(paths) : n \in Inside(paths[i])})
        /\ \A i, j \in 1..Len(paths) :
              i # j =>
                  \A n \in Inside(paths[i]) \cap Inside(paths[j]) :
                      LET p == paths[i]
                          q == paths[j]
                      IN p[At(p, n) - 1] # q[At(q, n) - 1]
        /\ nodes(before) \ nodes(heap[ret]) = Range(all_nodes_to_remove)

\* Two chains share an inside node: the two directions of a two-way street.
C8_Witness ==
    /\ Returned
    /\ \E i, j \in 1..Len(paths) :
          /\ i # j
          /\ Inside(paths[i]) \cap Inside(paths[j]) # {}
          /\ paths[i][1] = paths[j][Len(paths[j])]
          /\ paths[j][1] = paths[i][Len(paths[i])]

RECURSIVE LengthOfFirstEdges(_, _, _)
\* The lengths of the key 0 edges of G along the first i steps of p, summed.
LengthOfFirstEdges(G, p, i) ==
    IF i = 0 THEN 0
    ELSE LengthOfFirstEdges(G, p, i - 1) + edge_data(G, p[i], p[i + 1], 0).length

RECURSIVE LengthOfKeys(_, _, _, _)
\* The lengths of the edges from u to v with the keys 0..k-1, summed.
LengthOfKeys(G, u, v, k) ==
    IF k = 0 THEN 0 ELSE LengthOfKeys(G, u, v, k - 1) + edge_data(G, u, v, k - 1).length

RECURSIVE LengthOfAllEdges(_, _, _)
\* The lengths of all the edges of G along the first i steps of p, summed.
LengthOfAllEdges(G, p, i) ==
    IF i = 0 THEN 0
    ELSE LengthOfAllEdges(G, p, i - 1)
           + LengthOfKeys(G, p[i], p[i + 1], Cardinality(edges_between(G, p[i], p[i + 1])))

\* C4 as claimed: the length of the edge built for a chain is the sum of
\* the lengths of the edges between the consecutive nodes of the chain.
C4_LengthOfAllReplaced ==
    Returned =>
        /\ Len(all_edges_to_add) = Len(paths)
        /\ \A i \in 1..Len(paths) :
              all_edges_to_add[i].attr_dict.length
                  = LengthOfAllEdges(before, paths[i], Len(paths[i]) - 1)

\* C4, amended: the edge built for a chain runs from the first node of the
\* chain to its last, and its length is the sum, over the consecutive nodes
\* of the chain, of the length of the first (key 0) edge between them, equal
\* lengths counted as often as they occur; further parallel edges between
\* two consecutive nodes are not counted, so that the length is the sum
\* over all the edges replaced when the chain has no parallel edges.
C4_LengthOfFirstEdges ==
    Returned =>
        /\ Len(all_edges_to_add) = Len(paths)
        /\ \A i \in 1..Len(paths) :
              /\ all_edges_to_add[i].origin = paths[i][1]
              /\ all_edges_to_add[i].destination = paths[i][Len(paths[i])]
              /\ all_edges_to_add[i].attr_dict.length
                    = LengthOfFirstEdges(before, paths[i], Len(paths[i]) - 1)
              /\ multi_edge_log(before, paths[i]) = << >> =>
                    all_edges_to_add[i].attr_dict.length
                        = LengthOfAllEdges(before, paths[i], Len(paths[i]) - 1)

\* A chain over two edges of the same length, and one over parallel edges.
C4_Witness ==
    /\ Returned
    /\ \E i \in 1..Len(paths) :
          /\ Len(paths[i]) = 3
          /\ edge_data(before, paths[i][1], paths[i][2], 0).length
                = edge_data(before, paths[i][2], paths[i][3], 0).length
          /\ paths[i][3] \in nodes(heap[ret])
    /\ "multiple" \in Range(log)

RECURSIVE ReachableFrom(_, _)
\* The nodes a directed path of G leads to from the nodes in S.
ReachableFrom(G, S) ==
    LET T == S \cup UNION {successors(G, n) : n \in S}
    IN IF T = S THEN S ELSE ReachableFrom(G, T)

\* C10: between the nodes that are left, the graph returned has a directed
\* path where the input has one and only there, and the edge added for a
\* chain is an edge of the graph returned.
C10_ReachabilityPreserved ==
    Returned =>
        /\ \A u \in nodes(heap[ret]) :
              ReachableFrom(heap[ret], {u})
                  = ReachableFrom(before, {u}) \cap nodes(heap[ret])
        /\ \A i \in 1..Len(all_edges_to_add) :
              /\ all_edges_to_add[i].origin \in nodes(heap[ret])
              /\ all_edges_to_add[i].destination \in nodes(heap[ret])

\* C2 as claimed: a call on the graph an earlier call returned raises the
\* precondition error.
C2_SecondCallRejected == calls = 2 => raised

\* The edge added for chain p of the call before the last was still there
\* when that call returned: neither end of p was removed.
EdgeKept(p) ==
    /\ p[1] \notin Range(earlier.all_nodes_to_remove)
    /\ p[Len(p)] \notin Range(earlier.all_nodes_to_remove)

\* C2, amended: a call on the graph an earlier call returned raises the
\* precondition error if and only if the earlier call collected a chain
\* whose first and last node it did not remove; it then returns nothing
\* and leaves that graph as it was.
C2_RejectedIffEdgeKept ==
    calls = 2 =>
        /\ raised <=> \E i \in 1..Len(earlier.paths) : EdgeKept(earlier.paths[i])
        /\ raised => ret = 0 /\ heap[arg] = before /\ Len(heap) = 2

C2_Witness == calls = 2 /\ raised /\ Len(earlier.paths) > 1

\* The input of the last call without the isolated ring.
Rest == remove_nodes_from(before, RingNodes)

====
